---- MODULE Spec2Model ----
(***************************************************************************)
(* Tiger frontend: the mirrored application state (pinia store), its       *)
(* derived getters, the asynchronous command functions that apply the      *)
(* backend's patches to the store, and the keyboard shortcut handler.      *)
(*                                                                         *)
(* Encoding of JavaScript values:                                          *)
(*   - a nullable value is a tuple of length 0 (null / undefined) or 1     *)
(*     (the value): Null == << >>, Some(v) == <<v>>;                       *)
(*   - an object with a fixed set of fields is a record;                   *)
(*   - an object used as a dictionary (animations by name, sequences by    *)
(*     direction) is the sequence of its [key, value] entries in insertion *)
(*     order, which is the order Object.values iterates in;                *)
(*   - an array is a sequence (index i of the code is i + 1 here);         *)
(*   - an animation name or a direction is the sequence of its UTF-16 code *)
(*     units, so that toLowerCase and < are computed as the code computes  *)
(*     them.                                                               *)
(***************************************************************************)
EXTENDS Integers, Sequences, FiniteSets, TLC

VARIABLES
    store,      \* useAppStore().$state: the mirrored AppState
    inflight,   \* backend invocations awaiting their response, oldest first
    issued,     \* number of command function calls made so far
    log,        \* per call (by issuance number): what happened to it
    order,      \* issuance numbers in the order their response reached the store
    listeners,  \* the window's "keydown" listener list
    lastShortcutsCall,  \* "register" / "unregister": which was called last
    handled,    \* the key event being dispatched to the listeners, or Null
    applying,   \* the patch (its place in Patches) being handed to the store, or Null
    spaces      \* the play / pause calls of the space key that await their response

vars ==
    <<store, inflight, issued, log, order, listeners, lastShortcutsCall, handled,
      applying, spaces>>

----------------------------------------------------------------------------
(* Nullable values *)

Null == << >>

Some(v) == <<v>>

----------------------------------------------------------------------------
(* Strings as code units: String.prototype.toLowerCase and the < operator *)

LowerUnit(c) == IF c \in 65..90 THEN c + 32 ELSE c

toLowerCase(s) == [i \in DOMAIN s |-> LowerUnit(s[i])]

RECURSIVE StrLess(_, _)
StrLess(a, b) ==
    IF b = << >> THEN FALSE
    ELSE IF a = << >> THEN TRUE
    ELSE IF Head(a) # Head(b) THEN Head(a) < Head(b)
    ELSE StrLess(Tail(a), Tail(b))

----------------------------------------------------------------------------
(* Dictionaries: entries in insertion order *)

HasKey(obj, k) == \E i \in DOMAIN obj : obj[i].key = k

Lookup(obj, k) ==
    IF HasKey(obj, k)
    THEN Some(obj[CHOOSE i \in DOMAIN obj : obj[i].key = k].value)
    ELSE Null

ObjectValues(obj) == [i \in DOMAIN obj |-> obj[i].value]

\* "constructor": a property every object inherits from Object.prototype
Constructor == <<99, 111, 110, 115, 116, 114, 117, 99, 116, 111, 114>>

\* the names an object inherits from Object.prototype (one of them is enough
\* here)
ObjectPrototype == {Constructor}

\* the value of an inherited property: a function, which has none of the
\* fields of the state tree
Inherited == [inherited |-> "function"]

IsInherited(v) == "inherited" \in DOMAIN v

\* obj[k]: the object's own member, else the member it inherits, else
\* undefined
GetProperty(obj, k) ==
    IF HasKey(obj, k) THEN Lookup(obj, k)
    ELSE IF k \in ObjectPrototype THEN Some(Inherited)
    ELSE Null

\* What evaluating an expression gives: Null, Some(value), or TypeError when
\* it throws (reading a member of undefined)
TypeError == <<"TypeError", "TypeError">>

IsThrown(r) == Len(r) = Len(TypeError)

RECURSIVE Flatten(_)
Flatten(seqs) ==
    IF seqs = << >> THEN << >> ELSE Head(seqs) \o Flatten(Tail(seqs))

----------------------------------------------------------------------------
(* Array.prototype.sort with the comparator of sortedAnimations.  The sort  *)
(* is stable: an element goes after every element that does not compare    *)
(* greater than it.                                                         *)

\* A variant that compares the names as they are written
CompareAnimationsCaseSensitive(a, b) ==
    IF StrLess(a.name, b.name) THEN -1
    ELSE IF StrLess(b.name, a.name) THEN 1
    ELSE 0

CompareAnimations(a, b) ==
    LET nameA == toLowerCase(a.name)
        nameB == toLowerCase(b.name)
    IN  IF StrLess(nameA, nameB) THEN -1
        ELSE IF StrLess(nameB, nameA) THEN 1
        ELSE 0

RECURSIVE InsertSorted(_, _)
InsertSorted(sorted, x) ==
    IF sorted = << >> THEN <<x>>
    ELSE IF CompareAnimations(Head(sorted), x) > 0 THEN <<x>> \o sorted
    ELSE <<Head(sorted)>> \o InsertSorted(Tail(sorted), x)

RECURSIVE SortAnimations(_)
SortAnimations(animations) ==
    IF animations = << >> THEN << >>
    ELSE InsertSorted(SortAnimations(SubSeq(animations, 1, Len(animations) - 1)),
                      animations[Len(animations)])

----------------------------------------------------------------------------
(* Getters of the store *)

\* JavaScript truthiness of a nullable string (code units)
TruthyStr(opt) == opt # Null /\ opt[1] # << >>

RECURSIVE FirstDocument(_, _, _)
FirstDocument(documents, path, i) ==
    IF i > Len(documents) THEN Null
    ELSE IF Some(documents[i].path) = path THEN Some(documents[i])
    ELSE FirstDocument(documents, path, i + 1)

\* A variant that falls back to the first document when no path matches
currentDocumentOrFirst(state) ==
    LET found == FirstDocument(state.documents, state.currentDocumentPath, 1)
    IN  IF found = Null /\ state.documents # << >>
        THEN Some(state.documents[1])
        ELSE found

currentDocument(state) ==
    FirstDocument(state.documents, state.currentDocumentPath, 1)

sortedAnimations(state) ==
    LET doc == currentDocument(state)
    IN  IF doc = Null THEN Null
        ELSE Some(SortAnimations(ObjectValues(doc[1].sheet.animations)))

\* The state after sortedAnimations was evaluated: sort() reorders, in place,
\* the array Object.values made, which is no part of the state
sortedAnimationsState(state) == state

currentAnimation(state) ==
    LET doc == currentDocument(state)
    IN  IF doc # Null /\ TruthyStr(doc[1].currentAnimationName)
        THEN GetProperty(doc[1].sheet.animations, doc[1].currentAnimationName[1])
        ELSE Null

currentSequence(state) ==
    LET doc == currentDocument(state)
        animation == currentAnimation(state)
    IN  IF animation # Null /\ doc # Null /\ TruthyStr(doc[1].currentSequenceDirection)
        THEN IF IsInherited(animation[1]) THEN TypeError
             ELSE GetProperty(animation[1].sequences, doc[1].currentSequenceDirection[1])
        ELSE Null

currentKeyframe(state) ==
    LET doc == currentDocument(state)
        sequence == currentSequence(state)
    IN  IF IsThrown(sequence) THEN TypeError
        ELSE IF sequence # Null /\ doc # Null /\ doc[1].currentKeyframeIndex # Null
        THEN IF IsInherited(sequence[1]) THEN TypeError
             ELSE LET i == doc[1].currentKeyframeIndex[1] + 1
                  IN  IF i \in DOMAIN sequence[1].keyframes
                      THEN Some(sequence[1].keyframes[i])
                      ELSE Null
        ELSE Null

IsSelected(x) == x.selected

selectedFrames(state) ==
    LET doc == currentDocument(state)
    IN  IF doc = Null THEN Null
        ELSE Some(SelectSeq(doc[1].sheet.frames, IsSelected))

selectedAnimations(state) ==
    LET sorted == sortedAnimations(state)
    IN  IF sorted = Null THEN Null
        ELSE Some(SelectSeq(sorted[1], IsSelected))

selectedHitboxes(state) ==
    LET keyframe == currentKeyframe(state)
    IN  IF IsThrown(keyframe) THEN TypeError
        ELSE IF keyframe = Null THEN Null
        ELSE Some(SelectSeq(keyframe[1].hitboxes, IsSelected))

selectedKeyframes(state) ==
    LET animation == currentAnimation(state)
        sequences == ObjectValues(animation[1].sequences)
    IN  IF animation = Null THEN Null
        ELSE IF IsInherited(animation[1]) THEN TypeError
        ELSE Some(Flatten([i \in DOMAIN sequences |->
                              SelectSeq(sequences[i].keyframes, IsSelected)]))

\* !!x?.length
HasLength(opt) == opt # Null /\ Len(opt[1]) # 0

\* A variant of canCut that counts the selected frames too
canCutWithFrames(state) ==
    IF HasLength(selectedFrames(state)) THEN Some(TRUE)
    ELSE IF HasLength(selectedAnimations(state)) THEN Some(TRUE)
    ELSE IF IsThrown(selectedKeyframes(state)) THEN TypeError
    ELSE IF HasLength(selectedKeyframes(state)) THEN Some(TRUE)
    ELSE IF IsThrown(selectedHitboxes(state)) THEN TypeError
    ELSE Some(HasLength(selectedHitboxes(state)))

\* a || b || c: the operands are evaluated from the left until one is true;
\* one that throws ends the evaluation
canCut(state) ==
    IF HasLength(selectedAnimations(state)) THEN Some(TRUE)
    ELSE IF IsThrown(selectedKeyframes(state)) THEN TypeError
    ELSE IF HasLength(selectedKeyframes(state)) THEN Some(TRUE)
    ELSE IF IsThrown(selectedHitboxes(state)) THEN TypeError
    ELSE Some(HasLength(selectedHitboxes(state)))

canCopy(state) ==
    IF HasLength(selectedFrames(state)) THEN Some(TRUE)
    ELSE IF HasLength(selectedAnimations(state)) THEN Some(TRUE)
    ELSE IF IsThrown(selectedKeyframes(state)) THEN TypeError
    ELSE IF HasLength(selectedKeyframes(state)) THEN Some(TRUE)
    ELSE IF IsThrown(selectedHitboxes(state)) THEN TypeError
    ELSE Some(HasLength(selectedHitboxes(state)))

----------------------------------------------------------------------------
(* applyPatch(this.$state, patch, false) of fast-json-patch.  A path is the *)
(* sequence of its segments; a segment says how it indexes the value it    *)
(* meets: a field of an object, a key of a dictionary, an index of an      *)
(* array, or "-" (the end of an array).  Operations are applied in order   *)
(* and in place; one that throws ends the patch and leaves the effects of  *)
(* the operations before it.                                                *)

Field(k) == [field |-> k]

Key(k) == [key |-> k]

Index(i) == [index |-> i]

End == [end |-> TRUE]

IsField(tok) == "field" \in DOMAIN tok

IsKey(tok) == "key" \in DOMAIN tok

IsIndex(tok) == "index" \in DOMAIN tok

IsEnd(tok) == "end" \in DOMAIN tok

\* the segment names a property the object does not have itself and
\* inherits from Object.prototype: document[key] is then a function
IsInheritedMember(obj, tok) ==
    IsKey(tok) /\ ~HasKey(obj, tok.key) /\ tok.key \in ObjectPrototype

\* obj[key]: Null when there is no such member (undefined)
GetChild(obj, tok) ==
    CASE IsField(tok) -> IF tok.field \in DOMAIN obj THEN Some(obj[tok.field]) ELSE Null
      [] IsKey(tok)   -> GetProperty(obj, tok.key)
      [] IsIndex(tok) -> IF tok.index + 1 \in DOMAIN obj THEN Some(obj[tok.index + 1]) ELSE Null
      [] IsEnd(tok)   -> Null

\* obj[key] = value
SetMember(obj, tok, value) ==
    CASE IsField(tok) ->
            [f \in DOMAIN obj \cup {tok.field} |-> IF f = tok.field THEN value ELSE obj[f]]
      [] IsKey(tok) ->
            IF HasKey(obj, tok.key)
            THEN [i \in DOMAIN obj |->
                    IF obj[i].key = tok.key THEN [key |-> tok.key, value |-> value] ELSE obj[i]]
            ELSE Append(obj, [key |-> tok.key, value |-> value])
      [] IsIndex(tok) ->
            [i \in 1..(IF tok.index + 1 > Len(obj) THEN tok.index + 1 ELSE Len(obj)) |->
                IF i = tok.index + 1 THEN value ELSE IF i <= Len(obj) THEN obj[i] ELSE Null]
      [] IsEnd(tok) -> Append(obj, value)

\* delete obj[key], arr.splice(i, 1)
RemoveMember(obj, tok) ==
    CASE IsField(tok) -> [f \in DOMAIN obj \ {tok.field} |-> obj[f]]
      [] IsKey(tok)   -> SelectSeq(obj, LAMBDA e : e.key # tok.key)
      [] IsIndex(tok) ->
            IF tok.index + 1 \in DOMAIN obj
            THEN SubSeq(obj, 1, tok.index) \o SubSeq(obj, tok.index + 2, Len(obj))
            ELSE obj
      [] IsEnd(tok)   -> obj

\* arr.splice(i, 0, value)
InsertMember(arr, i, value) ==
    LET at == IF i > Len(arr) THEN Len(arr) ELSE i
    IN  SubSeq(arr, 1, at) \o <<value>> \o SubSeq(arr, at + 1, Len(arr))

\* _areEquals(obj[key], this.value): a member that is not there equals no
\* value
TestMember(obj, tok, value) ==
    LET member == GetChild(obj, tok)
    IN  member # Null /\ member[1] = value

\* objOps / arrOps: the operation at the last segment of its path
ApplyLast(obj, tok, op) ==
    CASE op.op = "add" ->
            IF IsIndex(tok) THEN InsertMember(obj, tok.index, op.value)
            ELSE SetMember(obj, tok, op.value)
      [] op.op = "replace" -> SetMember(obj, tok, op.value)
      [] op.op = "remove"  -> RemoveMember(obj, tok)
      [] op.op = "test"    -> obj

\* applyOperation: walk the path.  Reading a member of undefined throws a
\* TypeError; a test whose values differ throws TEST_OPERATION_FAILED, with
\* or without validation.  An inherited member is a function outside the
\* state tree: an operation on a member of it changes nothing in the tree.
RECURSIVE ApplyAt(_, _, _)
ApplyAt(obj, path, op) ==
    IF Len(path) = 1
    THEN [ok |-> op.op = "test" => TestMember(obj, Head(path), op.value),
          val |-> ApplyLast(obj, Head(path), op)]
    ELSE IF IsInheritedMember(obj, Head(path))
    THEN [ok |-> Len(path) = 2 /\ op.op # "test", val |-> obj]
    ELSE LET child == GetChild(obj, Head(path))
         IN  IF child = Null
             THEN [ok |-> FALSE, val |-> obj]
             ELSE LET r == ApplyAt(child[1], Tail(path), op)
                  IN  IF r.ok
                      THEN [ok |-> TRUE, val |-> SetMember(obj, Head(path), r.val)]
                      ELSE [ok |-> FALSE, val |-> obj]

\* getValueByPointer(document, pointer)
RECURSIVE GetAt(_, _)
GetAt(obj, path) ==
    IF IsInheritedMember(obj, Head(path))
    THEN [ok |-> Len(path) <= 2,
          val |-> IF Len(path) = 1 THEN Some(Inherited) ELSE Null]
    ELSE LET child == GetChild(obj, Head(path))
         IN  IF Len(path) = 1 THEN [ok |-> TRUE, val |-> child]
             ELSE IF child = Null THEN [ok |-> FALSE, val |-> Null]
             ELSE GetAt(child[1], Tail(path))

\* the value a move or a copy writes: undefined is written as null
ValueAt(document, path) ==
    LET got == GetAt(document, path).val
    IN  IF got = Null THEN Null ELSE got[1]

\* move: the destination is read, the source removed, its value added at
\* the destination; copy: the source is read and added at the destination
applyOperation(document, op) ==
    CASE op.op \in {"add", "replace", "remove", "test"} -> ApplyAt(document, op.path, op)
      [] op.op = "move" ->
            IF ~GetAt(document, op.path).ok THEN [ok |-> FALSE, val |-> document]
            ELSE LET removed == ApplyAt(document, op.from, [op |-> "remove"])
                 IN  IF ~removed.ok THEN removed
                     ELSE ApplyAt(removed.val, op.path,
                                  [op |-> "add", value |-> ValueAt(document, op.from)])
      [] op.op = "copy" ->
            IF ~GetAt(document, op.path).ok \/ ~GetAt(document, op.from).ok
            THEN [ok |-> FALSE, val |-> document]
            ELSE ApplyAt(document, op.path,
                         [op |-> "add", value |-> ValueAt(document, op.from)])

\* A variant that works on a copy: when an operation throws, the document
\* is the one before the patch
RECURSIVE applyPatchAtomic(_, _)
applyPatchAtomic(document, patch) ==
    IF patch = << >> THEN [ok |-> TRUE, val |-> document]
    ELSE LET r == applyOperation(document, Head(patch))
         IN  IF ~r.ok THEN [ok |-> FALSE, val |-> document]
             ELSE LET rest == applyPatchAtomic(r.val, Tail(patch))
                  IN  IF rest.ok THEN rest ELSE [ok |-> FALSE, val |-> document]

\* applyPatch(document, patch, false): the operations one after the other, on
\* the document itself; the first that throws ends it
RECURSIVE applyPatch(_, _)
applyPatch(document, patch) ==
    IF patch = << >> THEN [ok |-> TRUE, val |-> document]
    ELSE LET r == applyOperation(document, Head(patch))
         IN  IF r.ok THEN applyPatch(r.val, Tail(patch)) ELSE r

----------------------------------------------------------------------------
(* The state of the store after construction *)

EmptyState ==
    [documents |-> << >>,
     currentDocumentPath |-> Null,
     recentDocumentPaths |-> << >>,
     clipboardManifest |-> Null,
     isReleaseBuild |-> FALSE,
     error |-> Null]

----------------------------------------------------------------------------
(* What the backend may answer: full snapshots to get_state, patches to     *)
(* every other command.  The backend is opaque; these are the inputs.       *)

Walk == <<87, 97, 108, 107>>

attack == <<97, 116, 116, 97, 99, 107>>

Jump == <<74, 117, 109, 112>>

North == <<78, 111, 114, 116, 104>>

South == <<83, 111, 117, 116, 104>>

\* "run": the name of no animation
Run == <<114, 117, 110>>

UserError == [title |-> "Error", summary |-> "Could not save"]

Keyframe(selected, hitboxSelected) ==
    [selected |-> selected, hitboxes |-> <<[selected |-> hitboxSelected]>>]

AnimationOf(name, selected, sequences) ==
    [name |-> name, selected |-> selected, sequences |-> sequences]

\* A document with three animations; sel says what is selected, busy sets
\* the flags the Escape key looks at.
DocumentA(sel, busy) ==
    [path |-> "a.tiger",
     sheet |->
        [frames |-> <<[path |-> "f0.png", selected |-> sel]>>,
         animations |->
            <<[key |-> Walk, value |-> AnimationOf(Walk, sel,
                  <<[key |-> North, value |-> [keyframes |-> <<Keyframe(sel, sel)>>]],
                    [key |-> South, value |-> [keyframes |-> <<Keyframe(FALSE, FALSE)>>]]>>)],
              [key |-> attack, value |-> AnimationOf(attack, FALSE, << >>)],
              [key |-> Jump, value |-> AnimationOf(Jump, FALSE, << >>)]>>],
     currentAnimationName |-> Some(Walk),
     currentSequenceDirection |-> Some(North),
     currentKeyframeIndex |-> Some(0),
     timelineIsPlaying |-> busy,
     wasCloseRequested |-> busy,
     framesBeingRelocated |-> busy,
     exportSettingsBeingEdited |-> busy]

DocumentB ==
    [path |-> "b.tiger",
     sheet |-> [frames |-> << >>, animations |-> << >>],
     currentAnimationName |-> Null,
     currentSequenceDirection |-> Null,
     currentKeyframeIndex |-> Null,
     timelineIsPlaying |-> FALSE,
     wasCloseRequested |-> FALSE,
     framesBeingRelocated |-> FALSE,
     exportSettingsBeingEdited |-> FALSE]

Snapshot(documents, current, error) ==
    [documents |-> documents,
     currentDocumentPath |-> current,
     recentDocumentPaths |-> << >>,
     clipboardManifest |-> Null,
     isReleaseBuild |-> FALSE,
     error |-> error]

Snapshots ==
    {Snapshot(<< >>, Null, Null),
     Snapshot(<<DocumentA(FALSE, FALSE), DocumentB>>, Some("a.tiger"), Null),
     Snapshot(<<DocumentA(TRUE, TRUE), DocumentB>>, Some("a.tiger"), Some(UserError))}

Replace(path, value) == [op |-> "replace", path |-> path, value |-> value]

DocumentFlags ==
    <<"timelineIsPlaying", "wasCloseRequested", "framesBeingRelocated",
      "exportSettingsBeingEdited">>

SelectedPaths ==
    <<<<Field("sheet"), Field("frames"), Index(0), Field("selected")>>,
      <<Field("sheet"), Field("animations"), Key(Walk), Field("selected")>>,
      <<Field("sheet"), Field("animations"), Key(Walk), Field("sequences"), Key(South),
        Field("keyframes"), Index(0), Field("selected")>>,
      <<Field("sheet"), Field("animations"), Key(Walk), Field("sequences"), Key(North),
        Field("keyframes"), Index(0), Field("hitboxes"), Index(0), Field("selected")>>>>

\* one replace of every path of paths, with FALSE and with TRUE
BooleanPatches(paths) ==
    [k \in 1..(2 * Len(paths)) |->
        <<Replace(paths[(k + 1) \div 2], k % 2 = 0)>>]

\* replace of the references of the first document: to nothing, to an entity
\* that exists, to one that does not
ReferencePatches ==
    <<<<Replace(<<Field("documents"), Index(0), Field("currentAnimationName")>>, Null)>>,
      <<Replace(<<Field("documents"), Index(0), Field("currentAnimationName")>>,
                Some(attack))>>,
      <<Replace(<<Field("documents"), Index(0), Field("currentAnimationName")>>,
                Some(Run))>>,
      <<Replace(<<Field("documents"), Index(0), Field("currentAnimationName")>>,
                Some(Constructor))>>,
      <<Replace(<<Field("documents"), Index(0), Field("currentSequenceDirection")>>, Null)>>,
      <<Replace(<<Field("documents"), Index(0), Field("currentSequenceDirection")>>,
                Some(South))>>,
      <<Replace(<<Field("documents"), Index(0), Field("currentKeyframeIndex")>>, Null)>>,
      <<Replace(<<Field("documents"), Index(0), Field("currentKeyframeIndex")>>, Some(1))>>>>

Test(path, value) == [op |-> "test", path |-> path, value |-> value]

\* the path of an animation of the first document
AnimationPath(name) ==
    <<Field("documents"), Index(0), Field("sheet"), Field("animations"), Key(name)>>

\* patches of several operations, and patches that do not fit the tree: a
\* test of isReleaseBuild, which is false, before a replace; a replace in a
\* document that is not there, between two replaces that fit; a replace in
\* an animation that is not there; the move of an animation, if it is there,
\* to another name; the copy of a flag
OtherPatches ==
    <<<<Test(<<Field("isReleaseBuild")>>, FALSE),
        Replace(<<Field("error")>>, Some(UserError))>>,
      <<Test(<<Field("isReleaseBuild")>>, TRUE),
        Replace(<<Field("error")>>, Some(UserError))>>,
      <<Replace(<<Field("error")>>, Some(UserError)),
        Replace(<<Field("documents"), Index(2), Field("timelineIsPlaying")>>, TRUE),
        Replace(<<Field("currentDocumentPath")>>, Null)>>,
      <<Replace(AnimationPath(Run) \o <<Field("selected")>>, TRUE)>>,
      <<Replace(AnimationPath(Constructor) \o <<Field("selected")>>, TRUE)>>,
      <<Test(AnimationPath(Jump) \o <<Field("name")>>, Jump),
        [op |-> "move", from |-> AnimationPath(Jump), path |-> AnimationPath(Run)]>>,
      <<[op |-> "copy", from |-> <<Field("documents"), Index(0), Field("timelineIsPlaying")>>,
         path |-> <<Field("documents"), Index(0), Field("wasCloseRequested")>>]>>>>

\* The patches are a sequence, not a set: their values are of different
\* types, which TLC cannot compare.
Patches ==
    <<<< >>,
      <<Replace(<<Field("currentDocumentPath")>>, Null)>>,
      <<Replace(<<Field("currentDocumentPath")>>, Some("a.tiger"))>>,
      <<Replace(<<Field("currentDocumentPath")>>, Some("b.tiger"))>>,
      <<Replace(<<Field("error")>>, Null)>>,
      <<Replace(<<Field("error")>>, Some(UserError))>>>>
    \o BooleanPatches([k \in DOMAIN DocumentFlags |->
                         <<Field("documents"), Index(0), Field(DocumentFlags[k])>>])
    \o BooleanPatches([k \in DOMAIN SelectedPaths |->
                         <<Field("documents"), Index(0)>> \o SelectedPaths[k]])
    \o ReferencePatches
    \o OtherPatches

----------------------------------------------------------------------------
(* Bounds *)

MaxCalls == 3

----------------------------------------------------------------------------
(* The command functions: appStore.patch(await invoke(name, args)).         *)
(* Calling one sends the invocation and returns; its continuation runs     *)
(* when the backend's response arrives.  The backend's answer does not     *)
(* depend on the command here, so an invocation in flight is kept by what  *)
(* its continuation does with the answer: "assign" it to the state         *)
(* (getState) or "patch" the state with it (every other command function). *)

\* Command functions the panes call directly
PaneCommands ==
    {"undo", "redo", "focusContentTab", "clearSelection", "selectFrame",
     "selectAnimation", "pan", "centerWorkbench", "zoomInWorkbench",
     "zoomOutWorkbench", "resetWorkbenchZoom", "editAnimation", "renameAnimation",
     "deleteAnimation", "tick", "play", "pause", "scrubTimeline", "zoomInTimeline",
     "zoomOutTimeline", "resetTimelineZoom", "newDocument", "openDocuments",
     "focusDocument", "closeDocument", "closeCurrentDocument", "closeAllDocuments",
     "requestExit", "cancelExit"}

Continuation(fn) == IF fn = "getState" THEN "assign" ELSE "patch"

\* invoke(...) once per called command function, in call order
Invoke(fns) ==
    /\ issued' = issued + Len(fns)
    /\ inflight' = inflight \o
          [i \in 1..Len(fns) |-> [id |-> issued + i, then |-> Continuation(fns[i])]]
    /\ log' = log \o [i \in 1..Len(fns) |->
                        [then |-> Continuation(fns[i]), invokes |-> 1, applied |-> 0,
                         status |-> "pending"]]

Without(seq, i) == SubSeq(seq, 1, i - 1) \o SubSeq(seq, i + 1, Len(seq))

\* No handler and no continuation is running: each runs to its end before
\* the event loop starts the next
Idle == handled = Null /\ applying = Null

\* The application starts: nothing has been called yet
AtStartup == issued = 0

\* getState() is called, once, as the application starts
getState ==
    /\ AtStartup
    /\ Idle
    /\ Invoke(<<"getState">>)
    /\ UNCHANGED <<store, order, listeners, lastShortcutsCall, handled, applying, spaces>>

\* A variant that clears the error slot at once, before the backend answers
CallOptimistic(fn) ==
    /\ issued > 0
    /\ issued < MaxCalls
    /\ Idle
    /\ Invoke(<<fn>>)
    /\ store' = [store EXCEPT !.error = Null]
    /\ UNCHANGED <<order, listeners, lastShortcutsCall, handled, applying, spaces>>

\* A pane calls a command function
Call(fn) ==
    /\ issued > 0
    /\ issued < MaxCalls
    /\ Idle
    /\ Invoke(<<fn>>)
    /\ UNCHANGED <<store, order, listeners, lastShortcutsCall, handled, applying, spaces>>

\* A variant of the patch action that clears the error slot first
patchClearingError(state, p) == applyPatch([state EXCEPT !.error = Null], p)

\* the store's patch action
patch(state, p) == applyPatch(state, p)

\* A variant in which the continuations run in the order of the calls: only
\* the oldest pending invocation resumes
ResumesInIssuanceOrder(i) == i \in DOMAIN inflight /\ i = 1

\* await invoke(...): the continuation of a pending invocation runs as soon
\* as its response arrives, whatever else is pending
Resumes(i) == i \in DOMAIN inflight

\* get_state resolves: appStore.$state = snapshot
ResolveState(i, snapshot) ==
    /\ Idle
    /\ Resumes(i)
    /\ inflight[i].then = "assign"
    /\ inflight' = Without(inflight, i)
    /\ store' = snapshot
    /\ log' = [log EXCEPT ![inflight[i].id] =
                 [@ EXCEPT !.applied = @ + 1, !.status = "resolved"]]
    /\ order' = Append(order, inflight[i].id)
    /\ UNCHANGED <<issued, listeners, lastShortcutsCall, handled, applying, spaces>>

\* any other command resolves: appStore.patch(p); a patch that throws
\* rejects the command function's promise
\* (the k-th of Patches is the answer)
ResolvePatch(i, k) ==
    /\ Idle
    /\ Resumes(i)
    /\ inflight[i].then = "patch"
    /\ inflight' = Without(inflight, i)
    /\ order' = Append(order, inflight[i].id)
    /\ LET r == patch(store, Patches[k])
       IN  /\ store' = r.val
           /\ log' = [log EXCEPT ![inflight[i].id] =
                        [@ EXCEPT !.applied = @ + 1,
                                  !.status = IF r.ok THEN "resolved" ELSE "threw"]]
           /\ applying' = Some([id |-> inflight[i].id, patch |-> k, state |-> store,
                                threw |-> ~r.ok])
    /\ spaces' = SelectSeq(spaces, LAMBDA call : call.id # inflight[i].id)
    /\ UNCHANGED <<issued, listeners, lastShortcutsCall, handled>>

\* the command function returns: its promise resolves, or rejects when the
\* patch action threw
Settle ==
    /\ applying # Null
    /\ applying' = Null
    /\ UNCHANGED <<store, inflight, issued, log, order, listeners, lastShortcutsCall,
                   handled, spaces>>

\* A variant that sends the invocation again when the round-trip rejects
RejectAndRetry(i) ==
    /\ Idle
    /\ i \in DOMAIN inflight
    /\ log[inflight[i].id].invokes < 2
    /\ log' = [log EXCEPT ![inflight[i].id] = [@ EXCEPT !.invokes = @ + 1]]
    /\ UNCHANGED <<store, inflight, issued, order, listeners, lastShortcutsCall, handled,
                   applying, spaces>>

\* the backend round-trip rejects: await throws, the command function's
\* promise rejects
Reject(i) ==
    /\ Idle
    /\ i \in DOMAIN inflight
    /\ inflight' = Without(inflight, i)
    /\ log' = [log EXCEPT ![inflight[i].id] = [@ EXCEPT !.status = "rejected"]]
    /\ spaces' = SelectSeq(spaces, LAMBDA call : call.id # inflight[i].id)
    /\ UNCHANGED <<store, issued, order, listeners, lastShortcutsCall, handled, applying>>

----------------------------------------------------------------------------
(* The keyboard shortcut handler *)

Keys ==
    {"n", "o", "s", "S", "e", "E", "w", "W", "z", "Z", "x", "c", "v", " ", "+", "=",
     "-", "0", "a", "ArrowUp", "ArrowDown", "ArrowLeft", "ArrowRight", "Delete",
     "Home", "End", "F2", "Enter", "Escape", "q", "Tab"}

KeyboardEvents ==
    [key : Keys, ctrlKey : BOOLEAN, altKey : BOOLEAN, shiftKey : BOOLEAN]

\* document.activeElement
ActiveElements ==
    {[tagName |-> "INPUT", tabIndex |-> 0], [tagName |-> "INPUT", tabIndex |-> -1],
     [tagName |-> "BUTTON", tabIndex |-> 0], [tagName |-> "BODY", tabIndex |-> -1]}

CallOf(fn, args) == [fn |-> fn, args |-> args]

Handled(calls, prevented) == [calls |-> calls, prevented |-> prevented]

\* the branch of onKeyDown taken when event.ctrlKey is set
onKeyDownCtrl(event, state) ==
    LET key == event.key
    IN  IF key = "n" THEN Handled(<<CallOf("newDocument", << >>)>>, FALSE)
        ELSE IF key = "o" THEN Handled(<<CallOf("openDocuments", << >>)>>, FALSE)
        ELSE IF key = "s" THEN
            IF event.altKey THEN Handled(<<CallOf("saveAll", << >>)>>, FALSE)
            ELSE Handled(<<CallOf("save", << >>)>>, FALSE)
        ELSE IF key = "S" THEN
            Handled(<<CallOf("saveAs", <<state.currentDocumentPath>>)>>, TRUE)
        ELSE IF key = "e" THEN Handled(<<CallOf("doExport", << >>)>>, FALSE)
        ELSE IF key = "E" THEN Handled(<<CallOf("beginExportAs", << >>)>>, TRUE)
        ELSE IF key = "w" THEN Handled(<<CallOf("closeCurrentDocument", << >>)>>, FALSE)
        ELSE IF key = "W" THEN Handled(<<CallOf("closeAllDocuments", << >>)>>, FALSE)
        ELSE IF key = "z" THEN Handled(<<CallOf("undo", << >>)>>, TRUE)
        ELSE IF key = "Z" THEN Handled(<<CallOf("redo", << >>)>>, TRUE)
        ELSE IF key = "x" THEN Handled(<<CallOf("cut", << >>)>>, FALSE)
        ELSE IF key = "c" THEN Handled(<<CallOf("copy", << >>)>>, FALSE)
        ELSE IF key = "v" THEN Handled(<<CallOf("paste", << >>)>>, FALSE)
        ELSE IF key = " " THEN Handled(<<CallOf("centerWorkbench", << >>)>>, FALSE)
        ELSE IF key = "+" \/ key = "=" THEN
            IF event.altKey THEN Handled(<<CallOf("zoomInTimeline", << >>)>>, FALSE)
            ELSE Handled(<<CallOf("zoomInWorkbench", << >>)>>, FALSE)
        ELSE IF key = "-" THEN
            IF event.altKey THEN Handled(<<CallOf("zoomOutTimeline", << >>)>>, FALSE)
            ELSE Handled(<<CallOf("zoomOutWorkbench", << >>)>>, FALSE)
        ELSE IF key = "0" THEN
            IF event.altKey THEN Handled(<<CallOf("resetTimelineZoom", << >>)>>, FALSE)
            ELSE Handled(<<CallOf("resetWorkbenchZoom", << >>)>>, FALSE)
        ELSE IF key = "a" THEN Handled(<<CallOf("selectAll", << >>)>>, FALSE)
        ELSE IF key = "ArrowUp" THEN
            Handled(<<CallOf("nudgeSelection", <<"Up", event.shiftKey>>)>>, FALSE)
        ELSE IF key = "ArrowDown" THEN
            Handled(<<CallOf("nudgeSelection", <<"Down", event.shiftKey>>)>>, FALSE)
        ELSE IF key = "ArrowLeft" THEN
            Handled(<<CallOf("nudgeSelection", <<"Left", event.shiftKey>>)>>, FALSE)
        ELSE IF key = "ArrowRight" THEN
            Handled(<<CallOf("nudgeSelection", <<"Right", event.shiftKey>>)>>, FALSE)
        ELSE Handled(<< >>, FALSE)

\* A variant that reads the flag of the first document
DocumentFlagOfFirst(state, flag) ==
    state.documents # << >> /\ state.documents[1][flag]

\* state.currentDocument?.flag, as a condition
DocumentFlag(state, flag) ==
    LET doc == currentDocument(state)
    IN  doc # Null /\ doc[1][flag]

\* A variant of the Escape branch that looks at the close request first
onKeyDownEscapeCloseFirst(state) ==
    IF DocumentFlag(state, "wasCloseRequested")
        THEN Handled(<<CallOf("cancelExit", << >>)>>, FALSE)
    ELSE IF state.error # Null THEN Handled(<<CallOf("acknowledgeError", << >>)>>, FALSE)
    ELSE IF DocumentFlag(state, "framesBeingRelocated")
        THEN Handled(<<CallOf("cancelRelocateFrames", << >>)>>, FALSE)
    ELSE IF DocumentFlag(state, "exportSettingsBeingEdited")
        THEN Handled(<<CallOf("cancelExportAs", << >>)>>, FALSE)
    ELSE Handled(<< >>, FALSE)

\* A variant of the Escape branch without the else after the error: it also
\* cancels a requested close
onKeyDownEscapeBoth(state) ==
    IF state.error # Null THEN
        IF DocumentFlag(state, "wasCloseRequested")
        THEN Handled(<<CallOf("acknowledgeError", << >>), CallOf("cancelExit", << >>)>>,
                     FALSE)
        ELSE Handled(<<CallOf("acknowledgeError", << >>)>>, FALSE)
    ELSE IF DocumentFlag(state, "wasCloseRequested")
        THEN Handled(<<CallOf("cancelExit", << >>)>>, FALSE)
    ELSE IF DocumentFlag(state, "framesBeingRelocated")
        THEN Handled(<<CallOf("cancelRelocateFrames", << >>)>>, FALSE)
    ELSE IF DocumentFlag(state, "exportSettingsBeingEdited")
        THEN Handled(<<CallOf("cancelExportAs", << >>)>>, FALSE)
    ELSE Handled(<< >>, FALSE)

\* the Escape branch of onKeyDown
onKeyDownEscape(state) ==
    IF state.error # Null THEN Handled(<<CallOf("acknowledgeError", << >>)>>, FALSE)
    ELSE IF DocumentFlag(state, "wasCloseRequested")
        THEN Handled(<<CallOf("cancelExit", << >>)>>, FALSE)
    ELSE IF DocumentFlag(state, "framesBeingRelocated")
        THEN Handled(<<CallOf("cancelRelocateFrames", << >>)>>, FALSE)
    ELSE IF DocumentFlag(state, "exportSettingsBeingEdited")
        THEN Handled(<<CallOf("cancelExportAs", << >>)>>, FALSE)
    ELSE Handled(<< >>, FALSE)

\* the branch of onKeyDown taken when event.ctrlKey is not set
onKeyDownPlain(event, isActiveElementKeyboardFriendly, state) ==
    LET key == event.key
    IN  IF key = " " THEN
            IF ~isActiveElementKeyboardFriendly THEN
                IF DocumentFlag(state, "timelineIsPlaying")
                THEN Handled(<<CallOf("pause", << >>)>>, TRUE)
                ELSE Handled(<<CallOf("play", << >>)>>, TRUE)
            ELSE Handled(<< >>, FALSE)
        ELSE IF key = "Delete" THEN Handled(<<CallOf("deleteSelection", << >>)>>, FALSE)
        ELSE IF key = "ArrowUp" THEN
            Handled(<<CallOf("browseSelection", <<"Up", event.shiftKey>>)>>, TRUE)
        ELSE IF key = "ArrowDown" THEN
            Handled(<<CallOf("browseSelection", <<"Down", event.shiftKey>>)>>, TRUE)
        ELSE IF key = "ArrowLeft" THEN
            Handled(<<CallOf("browseSelection", <<"Left", event.shiftKey>>)>>, TRUE)
        ELSE IF key = "ArrowRight" THEN
            Handled(<<CallOf("browseSelection", <<"Right", event.shiftKey>>)>>, TRUE)
        ELSE IF key = "Home" THEN
            Handled(<<CallOf("browseToStart", <<event.shiftKey>>)>>, FALSE)
        ELSE IF key = "End" THEN
            Handled(<<CallOf("browseToEnd", <<event.shiftKey>>)>>, FALSE)
        ELSE IF key = "F2" THEN Handled(<<CallOf("beginRenameSelection", << >>)>>, FALSE)
        ELSE IF key = "Enter" THEN Handled(<< >>, ~isActiveElementKeyboardFriendly)
        ELSE IF key = "Escape" THEN onKeyDownEscape(state)
        ELSE Handled(<< >>, FALSE)

\* A variant without the early return for a focused INPUT
onKeyDownAnyFocus(event, activeElement, state) ==
    LET isActiveElementKeyboardFriendly == activeElement.tabIndex # -1
    IN  IF event.ctrlKey THEN onKeyDownCtrl(event, state)
        ELSE onKeyDownPlain(event, isActiveElementKeyboardFriendly, state)

\* onKeyDown(event): the command functions it calls, and whether it calls
\* event.preventDefault()
onKeyDown(event, activeElement, state) ==
    LET isActiveElementKeyboardFriendly == activeElement.tabIndex # -1
    IN  IF activeElement.tagName = "INPUT" THEN Handled(<< >>, FALSE)
        ELSE IF event.ctrlKey THEN onKeyDownCtrl(event, state)
        ELSE onKeyDownPlain(event, isActiveElementKeyboardFriendly, state)

\* window.addEventListener("keydown", listener): a listener already in the
\* list is not added again
addEventListener(list, listener) ==
    IF \E i \in DOMAIN list : list[i] = listener THEN list ELSE Append(list, listener)

\* window.removeEventListener("keydown", listener)
removeEventListener(list, listener) == SelectSeq(list, LAMBDA l : l # listener)

\* A variant that attaches a new listener at every call
registerFreshListener ==
    /\ issued > 0
    /\ Idle
    /\ listeners' = Append(listeners, "onKeyDown")
    /\ lastShortcutsCall' = "register"
    /\ UNCHANGED <<store, inflight, issued, log, order, handled, applying, spaces>>

registerKeyboardShortcuts ==
    /\ issued > 0
    /\ Idle
    /\ listeners' = addEventListener(listeners, "onKeyDown")
    /\ lastShortcutsCall' = "register"
    /\ UNCHANGED <<store, inflight, issued, log, order, handled, applying, spaces>>

unregisterKeyboardShortcuts ==
    /\ issued > 0
    /\ Idle
    /\ listeners' = removeEventListener(listeners, "onKeyDown")
    /\ lastShortcutsCall' = "unregister"
    /\ UNCHANGED <<store, inflight, issued, log, order, handled, applying, spaces>>

\* the calls of n runs of the handler on the same event
RECURSIVE Repeat(_, _)
Repeat(calls, n) == IF n = 0 THEN << >> ELSE calls \o Repeat(calls, n - 1)

\* The browser dispatches a keydown event: every listener of the window
\* runs, and each command function the handler calls sends its invocation.
KeyDown(event, activeElement) ==
    LET result == onKeyDown(event, activeElement, store)
        runs == Len(listeners)
        calls == Repeat(result.calls, runs)
    IN  /\ issued > 0
        /\ issued < MaxCalls
        /\ Idle
        /\ issued + Len(calls) <= MaxCalls
        /\ handled' = Some([event |-> event, activeElement |-> activeElement,
                            runs |-> runs, calls |-> calls,
                            prevented |-> runs > 0 /\ result.prevented])
        /\ Invoke([i \in DOMAIN calls |-> calls[i].fn])
        /\ spaces' = IF event.key = " " /\ ~event.ctrlKey /\ calls # << >>
                     THEN Append(spaces, [fn |-> calls[1].fn, id |-> issued + 1,
                                          landed |-> Len(order)])
                     ELSE spaces
        /\ UNCHANGED <<store, order, listeners, lastShortcutsCall, applying>>

\* the dispatch of the event is over
EndDispatch ==
    /\ handled # Null
    /\ handled' = Null
    /\ UNCHANGED <<store, inflight, issued, log, order, listeners, lastShortcutsCall,
                   applying, spaces>>

----------------------------------------------------------------------------
(* Specification *)

Init ==
    /\ store = EmptyState
    /\ inflight = << >>
    /\ issued = 0
    /\ log = << >>
    /\ order = << >>
    /\ listeners = << >>
    /\ lastShortcutsCall = "none"
    /\ handled = Null
    /\ applying = Null
    /\ spaces = << >>

Next ==
    \/ getState
    \/ \E fn \in PaneCommands : Call(fn)
    \/ \E i \in DOMAIN inflight, s \in Snapshots : ResolveState(i, s)
    \/ \E i \in DOMAIN inflight, k \in DOMAIN Patches : ResolvePatch(i, k)
    \/ \E i \in DOMAIN inflight : Reject(i)
    \/ registerKeyboardShortcuts
    \/ unregisterKeyboardShortcuts
    \/ /\ Idle
       /\ issued \in 1..(MaxCalls - 1)
       /\ \E event \in KeyboardEvents, activeElement \in ActiveElements :
             KeyDown(event, activeElement)
    \/ EndDispatch
    \/ Settle

Spec == Init /\ [][Next]_vars

\* The response to the command of this id arrives while an older command is
\* still pending
RespondsBehindPending(id) ==
    \E i \in DOMAIN inflight :
        /\ i > 1
        /\ inflight[i].id = id
        /\ \/ \E s \in Snapshots : ResolveState(i, s)
           \/ \E k \in DOMAIN Patches : ResolvePatch(i, k)

\* The event loop runs every handler and every continuation to its end, and
\* the backend answers every command, except that the oldest pending command
\* may stall for ever; a round-trip may still reject instead of resolving.
LiveSpec ==
    /\ Spec
    /\ WF_vars(EndDispatch)
    /\ WF_vars(Settle)
    /\ \A id \in 1..MaxCalls : SF_vars(RespondsBehindPending(id))

----------------------------------------------------------------------------
(* Properties *)

\* the command functions the handler called for the event being dispatched
Dispatched ==
    IF handled = Null THEN << >>
    ELSE [i \in DOMAIN handled[1].calls |-> handled[1].calls[i].fn]

\* the handler ran once for the event being dispatched, with the focus
\* outside an INPUT
HandledOutsideInput ==
    /\ handled # Null
    /\ handled[1].runs = 1
    /\ handled[1].activeElement.tagName # "INPUT"

\* some document with the current path has the flag set
CurrentHas(flag) ==
    \E i \in DOMAIN store.documents :
        /\ Some(store.documents[i].path) = store.currentDocumentPath
        /\ store.documents[i][flag]

\* C1: of two commands that answer with a patch, the one called first has
\* its patch applied to the store first, whichever response arrives first.
C1_PatchesInCallOrder ==
    \A i, j \in DOMAIN order :
        (/\ i < j
         /\ log[order[i]].then = "patch" /\ log[order[i]].status = "resolved"
         /\ log[order[j]].then = "patch" /\ log[order[j]].status = "resolved")
        => order[i] < order[j]

\* C2: every call of a command function invokes the backend exactly once;
\* its answer reaches the store exactly once when the round-trip resolves and
\* never when it rejects or is still pending.
C2_AppliedExactlyOnce ==
    \A id \in DOMAIN log :
        LET reached == Cardinality({k \in DOMAIN order : order[k] = id})
        IN  /\ log[id].invokes = 1
            /\ log[id].applied = reached
            /\ log[id].status \in {"resolved", "threw"} => log[id].applied = 1
            /\ log[id].status \in {"pending", "rejected"} => log[id].applied = 0
            /\ log[id].status = "pending" <=> \E k \in DOMAIN inflight : inflight[k].id = id

\* C2 witness: one command's patch was applied and another's round-trip
\* rejected.
C2_Witness ==
    /\ \E id \in DOMAIN log : log[id].then = "patch" /\ log[id].status = "resolved"
    /\ \E id \in DOMAIN log : log[id].status = "rejected"
    /\ log[1].status = "resolved"

\* C3: a rejected round-trip leaves the error slot of the state set.
C3_RejectSetsError ==
    [][(\E id \in DOMAIN log :
            /\ log[id].then = "patch"
            /\ log[id].status = "pending"
            /\ log'[id].status = "rejected")
        => store'.error # Null]_vars

\* C4: calling a command function and handling a key event leave the store
\* as it is; the store changes only in a step in which the response of a
\* pending command arrives.
C4_NoOptimisticMutation ==
    [][/\ (issued' # issued \/ handled' # handled) => store' = store
       /\ store' # store =>
            \E id \in DOMAIN log :
                /\ log[id].status = "pending"
                /\ log'[id].status \in {"resolved", "threw"}]_vars

\* C4 witness: the handler has just called a command function, other
\* commands are pending too, and the store is what the snapshot made it.
C4_Witness ==
    /\ handled # Null
    /\ Len(handled[1].calls) = 1
    /\ Len(inflight) = 2
    /\ store \in Snapshots
    /\ store.documents # << >>

\* C5: the snapshot of get_state is the first answer to reach the store: no
\* patch is applied before it.
C5_SnapshotBeforePatches ==
    \A i, j \in DOMAIN order :
        (i < j /\ log[order[i]].then = "patch" /\ log[order[i]].status = "resolved")
        => log[order[j]].then # "assign"

\* C6: Escape without the primary modifier, focus outside an INPUT, calls
\* exactly the first applicable of acknowledgeError (error set), cancelExit
\* (close requested), cancelRelocateFrames (frames being relocated),
\* cancelExportAs (export settings being edited), and nothing when none applies.
C6_EscapePriority ==
    (HandledOutsideInput /\ handled[1].event.key = "Escape" /\ ~handled[1].event.ctrlKey)
    => LET applicable ==
               (IF store.error # Null THEN {1} ELSE {})
               \cup (IF CurrentHas("wasCloseRequested") THEN {2} ELSE {})
               \cup (IF CurrentHas("framesBeingRelocated") THEN {3} ELSE {})
               \cup (IF CurrentHas("exportSettingsBeingEdited") THEN {4} ELSE {})
           commands == <<"acknowledgeError", "cancelExit", "cancelRelocateFrames",
                         "cancelExportAs">>
       IN  IF applicable = {} THEN Dispatched = << >>
           ELSE Dispatched =
                   <<commands[CHOOSE n \in applicable : \A m \in applicable : n <= m]>>

\* C6 witness: Escape handled with the error set and the close requested.
C6_Witness ==
    /\ HandledOutsideInput
    /\ handled[1].event.key = "Escape"
    /\ ~handled[1].event.ctrlKey
    /\ store.error # Null
    /\ CurrentHas("wasCloseRequested")
    /\ Dispatched = <<"acknowledgeError">>

\* keys that produce a character
CharacterKeys ==
    {"n", "o", "s", "S", "e", "E", "w", "W", "z", "Z", "x", "c", "v", " ", "+", "=",
     "-", "0", "a", "q"}

\* C7: with the focus in an INPUT, a character key without modifier calls no
\* command function.
C7_TypingNotHijacked ==
    (/\ handled # Null
     /\ handled[1].activeElement.tagName = "INPUT"
     /\ handled[1].event.key \in CharacterKeys
     /\ ~handled[1].event.ctrlKey
     /\ ~handled[1].event.altKey)
    => (Dispatched = << >> /\ ~handled[1].prevented)

\* C7 witness: the handler ran for an unmodified "a" typed in an INPUT.
C7_Witness ==
    /\ handled # Null
    /\ handled[1].runs = 1
    /\ handled[1].activeElement.tagName = "INPUT"
    /\ handled[1].event = [key |-> "a", ctrlKey |-> FALSE, altKey |-> FALSE,
                           shiftKey |-> FALSE]
    /\ Dispatched = << >>
    /\ store.documents # << >>

\* C8: Ctrl+x calls cut when canCut is true and nothing when it is false.
C8_CutOnlyWhenCanCut ==
    (HandledOutsideInput /\ handled[1].event.key = "x" /\ handled[1].event.ctrlKey)
    => Dispatched = (IF canCut(store) = Some(TRUE) THEN <<"cut">> ELSE << >>)

\* C9: the keydown handler is attached at most once, and it is attached iff
\* registerKeyboardShortcuts was called last; a key event runs the handler at
\* most once, and not at all after unregisterKeyboardShortcuts.
C9_ListenerPaired ==
    /\ Len(listeners) <= 1
    /\ Len(listeners) = 1 <=> lastShortcutsCall = "register"
    /\ handled # Null =>
          /\ handled[1].runs <= 1
          /\ handled[1].runs = 1 <=> lastShortcutsCall = "register"

\* C9 witness: a key event after the shortcuts were unregistered: the handler
\* does not run.
C9_Witness ==
    /\ handled # Null
    /\ lastShortcutsCall = "unregister"
    /\ handled[1].runs = 0
    /\ Dispatched = << >>

\* C10: currentDocument is document D iff D.path is currentDocumentPath, and
\* is none iff no document has that path.
C10_CurrentDocument ==
    LET current == currentDocument(store)
    IN  /\ \A i \in DOMAIN store.documents :
              current = Some(store.documents[i])
              <=> Some(store.documents[i].path) = store.currentDocumentPath
        /\ current = Null <=>
              ~\E i \in DOMAIN store.documents :
                  Some(store.documents[i].path) = store.currentDocumentPath

\* C10 witness: the second of two documents is the current one.
C10_Witness ==
    /\ Len(store.documents) = 2
    /\ store.currentDocumentPath = Some(store.documents[2].path)
    /\ currentDocument(store) = Some(store.documents[2])

\* the animation, sequence and keyframe the references of the current
\* document lead to, none when a link is absent or leads nowhere
ReferencedAnimation(state) ==
    LET doc == currentDocument(state)
    IN  IF doc # Null /\ doc[1].currentAnimationName # Null
        THEN Lookup(doc[1].sheet.animations, doc[1].currentAnimationName[1])
        ELSE Null

ReferencedSequence(state) ==
    LET doc == currentDocument(state)
        animation == ReferencedAnimation(state)
    IN  IF animation # Null /\ doc[1].currentSequenceDirection # Null
        THEN Lookup(animation[1].sequences, doc[1].currentSequenceDirection[1])
        ELSE Null

ReferencedKeyframe(state) ==
    LET doc == currentDocument(state)
        sequence == ReferencedSequence(state)
    IN  IF /\ sequence # Null
           /\ doc[1].currentKeyframeIndex # Null
           /\ doc[1].currentKeyframeIndex[1] + 1 \in DOMAIN sequence[1].keyframes
        THEN Some(sequence[1].keyframes[doc[1].currentKeyframeIndex[1] + 1])
        ELSE Null

\* C11: currentAnimation, currentSequence and currentKeyframe are the entity
\* the chain of references leads to (index 0 included), and none, without an
\* error, when a link is absent or dangling.
C11_ChainResolvesOrNone ==
    /\ currentAnimation(store) = ReferencedAnimation(store)
    /\ currentSequence(store) = ReferencedSequence(store)
    /\ currentKeyframe(store) = ReferencedKeyframe(store)

\* the names of a list of animations
Names(animations) == [i \in DOMAIN animations |-> animations[i].name]

\* C12: sortedAnimations is the animations of the current document's sheet,
\* each once, in ascending order of lower-cased name ("Walk", "attack", "Jump"
\* gives "attack", "Jump", "Walk"); it is none when there is no current
\* document; evaluating it leaves the store as it is.
C12_SortedAnimations ==
    LET doc == currentDocument(store)
        sorted == sortedAnimations(store)
        animations == ObjectValues(doc[1].sheet.animations)
    IN  /\ doc = Null => sorted = Null
        /\ doc # Null =>
              /\ sorted # Null
              /\ Len(sorted[1]) = Len(animations)
              /\ \A i \in DOMAIN animations :
                    Cardinality({j \in DOMAIN sorted[1] : sorted[1][j] = animations[i]}) = 1
              /\ \A i, j \in DOMAIN sorted[1] :
                    i < j => ~StrLess(toLowerCase(sorted[1][j].name),
                                      toLowerCase(sorted[1][i].name))
              /\ Names(animations) = <<Walk, attack, Jump>>
                    => Names(sorted[1]) = <<attack, Jump, Walk>>
        /\ sortedAnimationsState(store) = store

\* C12 witness: the current document's sheet holds "Walk", "attack", "Jump" in
\* this order and sortedAnimations gives "attack", "Jump", "Walk".
C12_Witness ==
    /\ currentDocument(store) # Null
    /\ Names(ObjectValues(currentDocument(store)[1].sheet.animations))
          = <<Walk, attack, Jump>>
    /\ Names(sortedAnimations(store)[1]) = <<attack, Jump, Walk>>

\* the position, in documents, of the current document
CurrentIndex(state) ==
    CHOOSE i \in DOMAIN state.documents :
        /\ Some(state.documents[i].path) = state.currentDocumentPath
        /\ \A j \in 1..(i - 1) :
              Some(state.documents[j].path) # state.currentDocumentPath

\* the state with the selected flag at a path of the current document flipped
Flipped(state, path, selected) ==
    patch(state, <<Replace(<<Field("documents"), Index(CurrentIndex(state) - 1)>> \o path,
                           ~selected)>>).val

\* what tells the elements of a selection apart when their contents change
AnimationNames(selection) ==
    IF selection = Null THEN Null ELSE Some(Names(selection[1]))

Count(selection) ==
    IF selection = Null \/ IsThrown(selection) THEN selection ELSE Some(Len(selection[1]))

\* one list is the other without its element at some position
OneLess(short, long) ==
    \E i \in DOMAIN long :
        short = SubSeq(long, 1, i - 1) \o SubSeq(long, i + 1, Len(long))

DiffersByOne(before, after) ==
    /\ before # Null /\ after # Null
    /\ ~IsThrown(before) /\ ~IsThrown(after)
    /\ OneLess(before[1], after[1]) \/ OneLess(after[1], before[1])

\* C13 (the getters): selectedFrames, selectedAnimations and selectedHitboxes
\* are the elements with selected = TRUE of the current document's frames, of
\* sortedAnimations and of the current keyframe's hitboxes, and none when
\* there is no current document, respectively no current keyframe.
SelectedOfDomains ==
    LET doc == currentDocument(store)
        keyframe == ReferencedKeyframe(store)
    IN  /\ selectedFrames(store) =
              (IF doc = Null THEN Null
               ELSE Some(SelectSeq(doc[1].sheet.frames, LAMBDA f : f.selected = TRUE)))
        /\ selectedAnimations(store) =
              (IF doc = Null THEN Null
               ELSE Some(SelectSeq(sortedAnimations(store)[1],
                                   LAMBDA a : a.selected = TRUE)))
        /\ selectedHitboxes(store) =
              (IF keyframe = Null THEN Null
               ELSE Some(SelectSeq(keyframe[1].hitboxes, LAMBDA h : h.selected = TRUE)))

\* C13 (flipping a flag): flipping the selected flag of one frame, animation
\* or hitbox of the current keyframe changes the getter of its domain by
\* exactly one element and no other selected* getter.
FlipChangesOne ==
    LET doc == currentDocument(store)
        keyframe == ReferencedKeyframe(store)
    IN  /\ doc # Null =>
              \A i \in DOMAIN doc[1].sheet.frames :
                  LET after == Flipped(store,
                                 <<Field("sheet"), Field("frames"), Index(i - 1),
                                   Field("selected")>>,
                                 doc[1].sheet.frames[i].selected)
                  IN  /\ DiffersByOne(selectedFrames(store), selectedFrames(after))
                      /\ selectedAnimations(after) = selectedAnimations(store)
                      /\ selectedKeyframes(after) = selectedKeyframes(store)
                      /\ selectedHitboxes(after) = selectedHitboxes(store)
        /\ doc # Null =>
              \A i \in DOMAIN doc[1].sheet.animations :
                  LET after == Flipped(store,
                                 <<Field("sheet"), Field("animations"),
                                   Key(doc[1].sheet.animations[i].key), Field("selected")>>,
                                 doc[1].sheet.animations[i].value.selected)
                  IN  /\ DiffersByOne(selectedAnimations(store), selectedAnimations(after))
                      /\ selectedFrames(after) = selectedFrames(store)
                      /\ selectedKeyframes(after) = selectedKeyframes(store)
                      /\ selectedHitboxes(after) = selectedHitboxes(store)
        /\ keyframe # Null =>
              \A i \in DOMAIN keyframe[1].hitboxes :
                  LET after == Flipped(store,
                                 <<Field("sheet"), Field("animations"),
                                   Key(doc[1].currentAnimationName[1]), Field("sequences"),
                                   Key(doc[1].currentSequenceDirection[1]),
                                   Field("keyframes"),
                                   Index(doc[1].currentKeyframeIndex[1]),
                                   Field("hitboxes"), Index(i - 1), Field("selected")>>,
                                 keyframe[1].hitboxes[i].selected)
                  IN  /\ DiffersByOne(selectedHitboxes(store), selectedHitboxes(after))
                      /\ selectedFrames(after) = selectedFrames(store)
                      /\ AnimationNames(selectedAnimations(after))
                            = AnimationNames(selectedAnimations(store))
                      /\ Count(selectedKeyframes(after)) = Count(selectedKeyframes(store))

\* C13: after any sequence of patches both hold.
C13_SelectedGetters == SelectedOfDomains /\ FlipChangesOne

\* a selection that has a value and is not empty
NonEmpty(selection) ==
    selection # Null /\ ~IsThrown(selection) /\ Len(selection[1]) > 0

\* a selection that has a value (a list or none) and holds nothing
Empty(selection) == selection = Null \/ selection = Some(<< >>)

OwnMember(obj, tok) ==
    CASE IsField(tok) -> IF tok.field \in DOMAIN obj THEN Some(obj[tok.field]) ELSE Null
      [] IsKey(tok)   -> Lookup(obj, tok.key)
      [] IsIndex(tok) -> IF tok.index + 1 \in DOMAIN obj THEN Some(obj[tok.index + 1]) ELSE Null
      [] IsEnd(tok)   -> Null

\* every segment of the path but the last leads to a member of the tree
RECURSIVE ParentsExist(_, _)
ParentsExist(obj, path) ==
    \/ Len(path) <= 1
    \/ /\ OwnMember(obj, Head(path)) # Null
       /\ ParentsExist(OwnMember(obj, Head(path))[1], Tail(path))

\* the patch reaches, operation after operation, an operation whose path
\* has a parent segment that is not in the tree
RECURSIVE MeetsMissingParent(_, _)
MeetsMissingParent(state, p) ==
    /\ p # << >>
    /\ \/ ~ParentsExist(state, Head(p).path)
       \/ /\ applyOperation(state, Head(p)).ok
          /\ MeetsMissingParent(applyOperation(state, Head(p)).val, Tail(p))

\* C15: a patch with an operation whose target path has a parent segment
\* that is not in the state tree makes the patch action throw, and the
\* command function's promise rejects.
C15_MissingParentThrows ==
    (applying # Null /\ MeetsMissingParent(applying[1].state, Patches[applying[1].patch]))
    => /\ applying[1].threw
       /\ log[applying[1].id].status = "threw"

\* the patch reaches, operation after operation, a test whose value differs
\* from the value at its path
RECURSIVE MeetsFailingTest(_, _)
MeetsFailingTest(state, p) ==
    /\ p # << >>
    /\ \/ /\ Head(p).op = "test"
          /\ GetAt(state, Head(p).path).ok
          /\ GetAt(state, Head(p).path).val # Some(Head(p).value)
       \/ /\ applyOperation(state, Head(p)).ok
          /\ MeetsFailingTest(applyOperation(state, Head(p)).val, Tail(p))

\* the operations of a patch that are no test
WithoutTests(p) == SelectSeq(p, LAMBDA op : op.op # "test")

\* C16: a patch with a test whose value differs from the value at its path
\* is applied without failure: the test does nothing and the operations
\* after it are applied.
C16_FailedTestIgnored ==
    (applying # Null /\ MeetsFailingTest(applying[1].state, Patches[applying[1].patch]))
    => /\ ~applying[1].threw
       /\ log[applying[1].id].status = "resolved"
       /\ store = applyPatch(applying[1].state, WithoutTests(Patches[applying[1].patch])).val

\* C17: the empty patch leaves every field of the state as it is, and so
\* does applying it again.
C17_EmptyPatchNoOp ==
    /\ (applying # Null /\ Patches[applying[1].patch] = << >>)
          => /\ store = applying[1].state
             /\ ~applying[1].threw
    /\ patch(store, << >>).val = store
    /\ patch(patch(store, << >>).val, << >>).val = patch(store, << >>).val

\* C17 witness: the empty patch was applied to a store with documents and
\* an error.
C17_Witness ==
    /\ applying # Null
    /\ Patches[applying[1].patch] = << >>
    /\ store.documents # << >>
    /\ store.error # Null

\* C18: a key event, whatever its key, modifiers, focus and the store, makes
\* the handler call at most one command function, which sends one invocation.
C18_AtMostOneCommand ==
    [][(handled = Null /\ handled' # Null)
        => /\ Len(handled'[1].calls) <= 1
           /\ issued' - issued = Len(handled'[1].calls)
           /\ Len(inflight') - Len(inflight) = Len(handled'[1].calls)]_vars

\* C18 witness: Ctrl+Alt+Shift+s outside an INPUT called saveAll and nothing
\* else.
C18_Witness ==
    /\ HandledOutsideInput
    /\ handled[1].event = [key |-> "s", ctrlKey |-> TRUE, altKey |-> TRUE,
                           shiftKey |-> TRUE]
    /\ Dispatched = <<"saveAll">>
    /\ Len(inflight) > 1

\* the handler ran once for a space key without the primary modifier
SpaceHandled ==
    /\ handled # Null
    /\ handled[1].runs = 1
    /\ handled[1].event.key = " "
    /\ ~handled[1].event.ctrlKey

\* the focus is on a control the keyboard operates: an INPUT, or an element
\* in the tab order
OnInteractiveControl(activeElement) ==
    activeElement.tagName = "INPUT" \/ activeElement.tabIndex # -1

\* C19 (the command): space without the primary modifier calls pause when
\* the current document's timelineIsPlaying is true, play otherwise (also
\* without a current document), and neither with the focus on a
\* keyboard-interactive control.
SpaceTogglesPlayback ==
    SpaceHandled =>
        Dispatched =
            (IF OnInteractiveControl(handled[1].activeElement) THEN << >>
             ELSE IF CurrentHas("timelineIsPlaying") THEN <<"pause">>
             ELSE <<"play">>)

\* the handler is calling play or pause for a space key
SpaceCalls(h) ==
    /\ h # Null
    /\ h[1].event.key = " "
    /\ ~h[1].event.ctrlKey
    /\ h[1].calls # << >>

\* C19 (two presses), as stated: a space press made while the call of an
\* earlier space press awaits its response calls the same command as that
\* one.
SamePendingSpace ==
    (handled = Null /\ SpaceCalls(handled'))
    => \A k \in DOMAIN spaces : handled'[1].calls[1].fn = spaces[k].fn

\* C19 (two presses), amended: ... and no response reached the store
\* between the two presses.
SameUndisturbedSpace ==
    (handled = Null /\ SpaceCalls(handled'))
    => \A k \in DOMAIN spaces :
          spaces[k].landed = Len(order) => handled'[1].calls[1].fn = spaces[k].fn

\* C19 as stated: the command of a space press, and the same command for a
\* second press made before the response to the first.
C19_SpaceAsStated == [](SpaceTogglesPlayback) /\ [][SamePendingSpace]_vars

\* C19, amended: the command of a space press, and the same command for a
\* second press made before the response to the first when no response of
\* any command reached the store between the two.
C19_SpaceTogglesPlayback == [](SpaceTogglesPlayback) /\ [][SameUndisturbedSpace]_vars

\* C19 witness: a second space press calls play while the play of the first
\* awaits its response.
C19_Witness ==
    /\ SpaceHandled
    /\ Dispatched = <<"play">>
    /\ Len(spaces) = 2
    /\ spaces[1].fn = "play"
    /\ spaces[1].landed = Len(order)
    /\ log[spaces[1].id].status = "pending"
    /\ store.documents # << >>

\* the selected keyframes of the sequences from the i-th on, a direction
\* after the other, each in the order of its keyframes
RECURSIVE SelectedFrom(_, _)
SelectedFrom(sequences, i) ==
    IF i > Len(sequences) THEN << >>
    ELSE SelectSeq(sequences[i].value.keyframes, LAMBDA k : k.selected = TRUE)
         \o SelectedFrom(sequences, i + 1)

\* the state with other references to the current sequence and keyframe
WithReferences(state, direction, index) ==
    [state EXCEPT !.documents[CurrentIndex(state)] =
        [@ EXCEPT !.currentSequenceDirection = direction,
                  !.currentKeyframeIndex = index]]

\* C20: selectedKeyframes is the selected keyframes of all the sequences of
\* the current animation, in the order of the directions in the mapping and
\* then of the keyframes; it is none without a current animation; it does
\* not depend on currentSequenceDirection and currentKeyframeIndex.
C20_SelectedKeyframes ==
    LET animation == ReferencedAnimation(store)
    IN  /\ selectedKeyframes(store) =
              (IF animation = Null THEN Null
               ELSE Some(SelectedFrom(animation[1].sequences, 1)))
        /\ currentDocument(store) # Null =>
              \A direction \in {Null, Some(North), Some(South)},
                 index \in {Null, Some(0), Some(1)} :
                  selectedKeyframes(WithReferences(store, direction, index))
                      = selectedKeyframes(store)

\* the answer of command b has reached the store and command a, called
\* before it, is still pending
AppliedWhilePending(a, b) ==
    /\ log[a].status = "pending"
    /\ log[b].then = "patch"
    /\ log[b].applied = 1

\* C21: a command whose response never arrives does not block those called
\* after it: from some time on, of every two commands a and b, b called after
\* a, such that a is still pending and the round-trip of b did not reject,
\* the patch of b has been applied to the store, while a is pending.
C21_StalledDoesNotBlock ==
    <>[](\A a \in DOMAIN log, b \in DOMAIN log :
            (a < b /\ log[a].status = "pending" /\ log[b].status # "rejected")
                => AppliedWhilePending(a, b))

\* C21 witness: the patch of a later command has changed the store while the
\* command called first after startup is still pending.
C21_Witness ==
    \E a \in DOMAIN log, b \in DOMAIN log :
        /\ a < b
        /\ log[a].then = "patch"
        /\ AppliedWhilePending(a, b)
        /\ log[b].status = "resolved"
        /\ applying # Null
        /\ applying[1].id = b
        /\ applying[1].state # store

\* the state after the operations of p before the k-th, applied one by one
RECURSIVE StateBefore(_, _, _)
StateBefore(state, p, k) ==
    IF k = 1 THEN state
    ELSE applyOperation(StateBefore(state, p, k - 1), p[k - 1]).val

\* the place of the first operation of p that fails, from the k-th on,
\* state being the state the k-th meets; 0 when none fails
RECURSIVE FirstFailure(_, _, _)
FirstFailure(state, p, k) ==
    IF k > Len(p) THEN 0
    ELSE LET r == applyOperation(state, p[k])
         IN  IF r.ok THEN FirstFailure(r.val, p, k + 1) ELSE k

\* the place of the operation that fails in the patch being applied, or 0
FailedAt ==
    IF applying = Null THEN 0
    ELSE FirstFailure(applying[1].state, Patches[applying[1].patch], 1)

\* C22: when operation k of a patch fails, the patch action throws and the
\* store is the state before the patch changed by operations 1..k-1 and by
\* nothing else: what they did stays, operations k..n are not applied.
C22_PatchNotAtomic ==
    FailedAt > 0 =>
        /\ applying[1].threw
        /\ store = StateBefore(applying[1].state, Patches[applying[1].patch], FailedAt)

\* C22 witness: the second of three operations failed; the store has what
\* the first did, so it is not the state before the patch, and it has not
\* what the third would do.
C22_Witness ==
    /\ FailedAt > 1
    /\ FailedAt < Len(Patches[applying[1].patch])
    /\ applying[1].threw
    /\ store # applying[1].state
    /\ store.error # applying[1].state.error
    /\ store.currentDocumentPath # Null

====
